---- MODULE Spec2Model ----
(***************************************************************************)
(* Session-quota state machine of the tarot oracle backend (src/main.py).  *)
(*                                                                         *)
(* The store is the "session" collection of the document database.  The    *)
(* collection has no unique index on session_id (main.py creates none), so *)
(* it may hold several documents with the same session_id.  find_one and   *)
(* find_one_and_update are called without a sort: they act on the first    *)
(* matching document in the collection's natural order.                    *)
(* Every store call is one atomic step; the handlers' local computation    *)
(* between two store calls is folded into the preceding step.              *)
(***************************************************************************)
EXTENDS Integers, Sequences, FiniteSets, TLC

\* Request handlers that may run at the same time (threads of the HTTP server).
Procs == {"p1", "p2"}

\* Client-supplied session identifiers.
Sessions == {"s1", "s2"}

\* Largest value of the logical clock behind datetime.now(); it saturates.
MaxClock == 1

\* Largest value the per-session tallies of read requests count to; they saturate.
MaxReads == 5

\* The quota compared against in read_cards (total >= 3, current > 3).
QUOTA == 3

\* The number of cards drawn: random.sample(TAROT_DECK, 3).
DrawCount == 3

FINAL_WARNING == "If you do not act now, the veil will close."

FINAL_BLOCK == "The Oracle has been sealed after 3 visions."

VARIABLES
    store,     \* store[s]: documents with session_id s, in natural order
    clock,     \* logical time returned by datetime.now(timezone.utc)
    pc,        \* position of each handler
    op,        \* endpoint a handler is serving
    sid,       \* req.session_id of the handler's request
    total,     \* local `total` of read_cards
    current,   \* local `current` of read_cards
    resp,      \* response returned by the handler
    nread,     \* history: /api/read requests started per session
    served,    \* history: reading objects returned per session
    raced,     \* history: two reads of the session were both between
               \* pre-check and increment at the same time
    picks,     \* local `picks` of read_cards: the cards drawn
    payload    \* local `payload` of read_cards: what build_reading returned

\* The locals of the drawing part of read_cards.  The quota state machine
\* neither reads nor writes them; its response records only that a reading
\* was returned, and the draw is followed in SpecDraw.
drawVars == <<picks, payload>>

vars == <<store, clock, pc, op, sid, total, current, resp, nread, served, raced,
          picks, payload>>

----------------------------------------------------------------------------
\* Documents and store primitives

\* Result of a lookup that matches nothing (Python None).
None == [count |-> -1, created_at |-> -1, updated_at |-> -1]

Min(a, b) == IF a < b THEN a ELSE b

\* seq with d placed at position i (1 .. Len(seq)+1).
InsertAt(seq, i, d) == SubSeq(seq, 1, i - 1) \o <<d>> \o SubSeq(seq, i, Len(seq))

\* db["session"].find_one({"session_id": s})
find_one(st, s) == IF st[s] = <<>> THEN None ELSE Head(st[s])

\* As get_session_count, with the default of increment_session_count's read (1).
get_session_count_default1(st, s) ==
    LET doc == find_one(st, s)
    IN  IF doc # None THEN doc.count ELSE 1

\* get_session_count
get_session_count(st, s) ==
    LET doc == find_one(st, s)
    IN  IF doc # None THEN doc.count ELSE 0

\* As find_one_and_update, with the session_id filter left out: the update
\* goes to the first document of the collection, whatever its session.
find_one_and_update_noFilter(st, s, now) ==
    LET used == {t \in DOMAIN st : st[t] # <<>>}
    IN  IF used = {}
        THEN [st EXCEPT ![s] = <<[count |-> 1, created_at |-> now, updated_at |-> now]>>]
        ELSE LET t == CHOOSE u \in used : TRUE
             IN  [st EXCEPT ![t][1] = [@ EXCEPT !.count = @ + 1, !.updated_at = now]]

\* As find_one_and_update, with the upserted document left at count 0.
find_one_and_update_upsertZero(st, s, now) ==
    IF st[s] = <<>>
    THEN [st EXCEPT ![s] = <<[count |-> 0, created_at |-> now, updated_at |-> now]>>]
    ELSE [st EXCEPT ![s][1] = [@ EXCEPT !.count = @ + 1, !.updated_at = now]]

\* db["session"].find_one_and_update(..., upsert=True): the store afterwards.
\* $inc on a missing field starts from 0, so an upserted document has count 1.
find_one_and_update(st, s, now) ==
    IF st[s] = <<>>
    THEN [st EXCEPT ![s] = <<[count |-> 1, created_at |-> now, updated_at |-> now]>>]
    ELSE [st EXCEPT ![s][1] = [@ EXCEPT !.count = @ + 1, !.updated_at = now]]

\* As increment_session_count, with the document read back before the update.
increment_session_count_before(st, s, now) ==
    [store |-> find_one_and_update(st, s, now), value |-> get_session_count(st, s)]

\* increment_session_count: the store afterwards and the value returned.
\* return_document=True is ReturnDocument.AFTER: with upsert=True the result is
\* the updated or inserted document.  The `result is None` branch, taken when
\* the driver reports no result, is IncrementNoResult / IncrementFallback.
increment_session_count(st, s, now) ==
    LET st2    == find_one_and_update(st, s, now)
        result == find_one(st2, s)
    IN  [store |-> st2, value |-> result.count]

\* As fallback_count, with the default of get_session_count (0).
fallback_count_zero(st, s) ==
    LET doc == find_one(st, s)
    IN  IF doc # None THEN doc.count ELSE 0

\* increment_session_count, `if result is None:` branch:
\* doc = find_one(...); return int(doc.get("count", 1)) if doc else 1
fallback_count(st, s) ==
    LET doc == find_one(st, s)
    IN  IF doc # None THEN doc.count ELSE 1

\* As insert_one, with the new document starting at count 1.
insert_one_counted(st, s, now) ==
    { [st EXCEPT ![s] = InsertAt(@, i, [count |-> 1, created_at |-> now, updated_at |-> now])]
        : i \in 1..(Len(st[s]) + 1) }

\* db["session"].insert_one({... "count": 0 ...}): the possible stores afterwards.
\* Natural order is not promised to be insertion order, so the new document may
\* come before or after the documents that already match.
insert_one(st, s, now) ==
    { [st EXCEPT ![s] = InsertAt(@, i, [count |-> 0, created_at |-> now, updated_at |-> now])]
        : i \in 1..(Len(st[s]) + 1) }

----------------------------------------------------------------------------
\* The deck and the reading

\* TAROT_DECK; the glyphs of `symbol` are written out in words.
TAROT_DECK ==
    << [name |-> "The Moon", symbol |-> "(moon)",
        meaning |-> "intuition, dreams, hidden waters",
        whisper |-> "Trust the tide beneath the mind."],
       [name |-> "The Star", symbol |-> "(sparkles)",
        meaning |-> "healing, hope, luminous guidance",
        whisper |-> "A silver thread is guiding you home."],
       [name |-> "The Tower", symbol |-> "(tower)",
        meaning |-> "revelation, rupture, divine reset",
        whisper |-> "What falls was never yours to carry."],
       [name |-> "The Empress", symbol |-> "(herb)",
        meaning |-> "creation, sweetness, fertile ground",
        whisper |-> "What you tend will bloom."],
       [name |-> "The Magician", symbol |-> "(fire)",
        meaning |-> "will, craft, manifestation",
        whisper |-> "As within, so without; choose and conjure."],
       [name |-> "Death", symbol |-> "(butterfly)",
        meaning |-> "transmutation, ending, sacred molt",
        whisper |-> "Shed the husk; the wings are ready."],
       [name |-> "The Lovers", symbol |-> "(dizzy)",
        meaning |-> "union, choice, mirrored flame",
        whisper |-> "What you vow to becomes you."],
       [name |-> "The Hermit", symbol |-> "(candle)",
        meaning |-> "solitude, lantern, inner path",
        whisper |-> "Go inward; there is a door only you can open."] >>

\* As sample, drawing each position independently (with replacement).
sample_withReplacement(population, k) ==
    { [i \in 1..k |-> population[f[i]]] : f \in [1..k -> 1..Len(population)] }

\* random.sample(population, k): every sequence of k entries taken from
\* pairwise different positions of the population.
sample(population, k) ==
    { [i \in 1..k |-> population[f[i]]] :
        f \in { g \in [1..k -> 1..Len(population)] :
                    \A i, j \in 1..k : i # j => g[i] # g[j] } }

\* random.choice(["child of the Moon", "soul in crossing"])
AddressForms == {"child of the Moon", "soul in crossing"}

\* random.choice([...]) of the closing hook
Hooks == {"Return tomorrow; I will feel new vibrations.",
          "Something new is coming... I will be here between the veils."}

\* As CardLine, numbering the cards from 0.
CardLine_zeroBased(c, idx) ==
    <<c.symbol, " Card ", ToString(idx - 1), ": ", c.name, " - ", c.meaning, ". ", c.whisper>>

\* f"{c['symbol']} Card {idx}: {c['name']} - {c['meaning']}. {c['whisper']}"
\* A line of text is the sequence of the fragments the f-string joins.
CardLine(c, idx) ==
    <<c.symbol, " Card ", ToString(idx), ": ", c.name, " - ", c.meaning, ". ", c.whisper>>

\* The three lines of `hint`.
HintLines ==
    << <<"It pulses behind the veil... holding a stronger destiny.">>,
       <<"A portal is opening... but it reveals itself only to those who dare to cross.">>,
       <<"The last card does not appear in public. I can reveal it ONLY inside the Portal...">> >>

EmptyLine == <<>>

\* build_reading(cards), with the two random choices as parameters.  `message`
\* is the text as its sequence of lines: "\n".join of `whisper` (which ends
\* with a newline, hence an empty line after it), the card lines, "\n" + hint
\* and "\n" + hook.
build_reading(cards, addressed, hook) ==
    LET lines   == [idx \in 1..Len(cards) |-> CardLine(cards[idx], idx)]
        whisper == << <<addressed, ", hear me: ",
                        "I see threads tightening and loosening around you, a design seeking your permission.">>,
                      EmptyLine >>
        text    == whisper \o lines \o <<EmptyLine>> \o HintLines \o <<EmptyLine, <<hook>>>>
    IN  [cards |-> cards, message |-> text,
         cta |-> "Enter the Portal on WhatsApp to unveil the Hidden Card and receive a private ritual.",
         cta_sub |-> "I can perform the lunar sweetening ritual to open your paths, but I need your permission..."]

\* `payload` before build_reading has run.
NoPayload == [cards |-> <<>>, message |-> <<>>, cta |-> "", cta_sub |-> ""]

----------------------------------------------------------------------------
\* Responses

NoResp == [shape |-> "none", items |-> <<>>, keys |-> {}, status |-> ""]

\* {"phrase": ..., "status": "ready"}
Ack == [shape |-> "object", items |-> <<>>, keys |-> {"phrase", "status"}, status |-> "ready"]

\* As AlertList, with the alert object returned bare instead of in a list.
AlertList_bare(d) ==
    [shape |-> "object", items |-> <<>>, keys |-> {"name", "description"}, status |-> ""]

\* [{"name": "alert", "description": d}]
AlertList(d) ==
    [shape |-> "list", items |-> <<[name |-> "alert", description |-> d]>>,
     keys |-> {}, status |-> ""]

\* The answer of the HTTP layer when the handler raises: read_cards and the
\* functions it calls catch nothing, so an exception of a store call leaves
\* the handler and no value is returned.
ErrorResp == [shape |-> "error", items |-> <<>>, keys |-> {}, status |-> ""]

\* build_reading's payload: {"cards", "message", "cta", "cta_sub"}
Reading ==
    [shape |-> "object", items |-> <<>>,
     keys |-> DOMAIN build_reading(<<>>, "", ""),
     status |-> ""]

----------------------------------------------------------------------------
\* Branch conditions of activate and read_cards

Existing_never(doc) == FALSE

\* if not existing: (a document is truthy, None is not)
Existing(doc) == doc # None

OverQuota_gt(t) == t > QUOTA

\* if total >= 3
OverQuota(t) == t >= QUOTA

Sealed_ge(c) == c >= QUOTA

\* if current > 3
Sealed(c) == c > QUOTA

----------------------------------------------------------------------------
\* Handlers

Init ==
    /\ store = [s \in Sessions |-> <<>>]
    /\ clock = 0
    /\ pc = [p \in Procs |-> "idle"]
    /\ op = [p \in Procs |-> "none"]
    /\ sid = [p \in Procs |-> CHOOSE s \in Sessions : TRUE]
    /\ total = [p \in Procs |-> 0]
    /\ current = [p \in Procs |-> 0]
    /\ resp = [p \in Procs |-> NoResp]
    /\ nread = [s \in Sessions |-> 0]
    /\ served = [s \in Sessions |-> 0]
    /\ raced = [s \in Sessions |-> FALSE]
    /\ picks = [p \in Procs |-> <<>>]
    /\ payload = [p \in Procs |-> NoPayload]

Free(p) == pc[p] \in {"idle", "done"}

\* A POST /api/activate request arrives at handler p.
StartActivate(p, s) ==
    /\ Free(p)
    /\ pc' = [pc EXCEPT ![p] = "a_find"]
    /\ op' = [op EXCEPT ![p] = "activate"]
    /\ sid' = [sid EXCEPT ![p] = s]
    /\ total' = [total EXCEPT ![p] = 0]
    /\ current' = [current EXCEPT ![p] = 0]
    /\ resp' = [resp EXCEPT ![p] = NoResp]
    /\ UNCHANGED <<store, clock, nread, served, raced, drawVars>>

\* activate: existing = find_one(...); when a record exists, return at once.
ActivateFind(p) ==
    /\ pc[p] = "a_find"
    /\ IF Existing(find_one(store, sid[p]))
       THEN /\ pc' = [pc EXCEPT ![p] = "done"]
            /\ resp' = [resp EXCEPT ![p] = Ack]
       ELSE /\ pc' = [pc EXCEPT ![p] = "a_insert"]
            /\ UNCHANGED resp
    /\ UNCHANGED <<store, clock, op, sid, total, current, nread, served, raced, drawVars>>

\* activate: now = datetime.now(); insert_one({count: 0, ...}); return.
ActivateInsert(p) ==
    /\ pc[p] = "a_insert"
    /\ store' \in insert_one(store, sid[p], clock)
    /\ clock' = Min(clock + 1, MaxClock)
    /\ pc' = [pc EXCEPT ![p] = "done"]
    /\ resp' = [resp EXCEPT ![p] = Ack]
    /\ UNCHANGED <<op, sid, total, current, nread, served, raced, drawVars>>

\* A POST /api/read request arrives at handler p.
StartRead(p, s) ==
    /\ Free(p)
    /\ pc' = [pc EXCEPT ![p] = "r_get"]
    /\ op' = [op EXCEPT ![p] = "read"]
    /\ sid' = [sid EXCEPT ![p] = s]
    /\ total' = [total EXCEPT ![p] = 0]
    /\ current' = [current EXCEPT ![p] = 0]
    /\ resp' = [resp EXCEPT ![p] = NoResp]
    /\ nread' = [nread EXCEPT ![s] = Min(@ + 1, MaxReads)]
    /\ UNCHANGED <<store, clock, served, raced, drawVars>>

\* As ReadPreCheck, with the counter incremented before the quota is tested.
ReadPreCheck_incrementFirst(p) ==
    LET t == get_session_count(store, sid[p])
    IN  /\ pc[p] = "r_get"
        /\ total' = [total EXCEPT ![p] = IF OverQuota(t) THEN 0 ELSE t]
        /\ IF OverQuota(t)
           THEN /\ pc' = [pc EXCEPT ![p] = "done"]
                /\ resp' = [resp EXCEPT ![p] = AlertList(FINAL_WARNING)]
                /\ store' = increment_session_count(store, sid[p], clock).store
                /\ UNCHANGED raced
           ELSE /\ pc' = [pc EXCEPT ![p] = "r_inc"]
                /\ UNCHANGED <<resp, store>>
                /\ raced' = [raced EXCEPT ![sid[p]] =
                        @ \/ \E q \in Procs \ {p} : pc[q] = "r_inc" /\ sid[q] = sid[p]]
        /\ UNCHANGED <<clock, op, sid, current, nread, served, drawVars>>

\* read_cards: total = get_session_count(...); if total >= 3: return the warning.
\* The locals go out of scope on return and are cleared.
ReadPreCheck(p) ==
    LET t == get_session_count(store, sid[p])
    IN  /\ pc[p] = "r_get"
        /\ total' = [total EXCEPT ![p] = IF OverQuota(t) THEN 0 ELSE t]
        /\ IF OverQuota(t)
           THEN /\ pc' = [pc EXCEPT ![p] = "done"]
                /\ resp' = [resp EXCEPT ![p] = AlertList(FINAL_WARNING)]
                /\ UNCHANGED raced
           ELSE /\ pc' = [pc EXCEPT ![p] = "r_inc"]
                /\ UNCHANGED resp
                /\ raced' = [raced EXCEPT ![sid[p]] =
                        @ \/ \E q \in Procs \ {p} : pc[q] = "r_inc" /\ sid[q] = sid[p]]
        /\ UNCHANGED <<store, clock, op, sid, current, nread, served, drawVars>>

\* As ReadIncrement, with the counter left alone when the block is returned.
ReadIncrement_noSealedWrite(p) ==
    LET r == increment_session_count(store, sid[p], clock)
    IN  /\ pc[p] = "r_inc"
        /\ clock' = Min(clock + 1, MaxClock)
        /\ current' = [current EXCEPT ![p] = 0]
        /\ total' = [total EXCEPT ![p] = 0]
        /\ pc' = [pc EXCEPT ![p] = "done"]
        /\ IF Sealed(r.value)
           THEN /\ resp' = [resp EXCEPT ![p] = AlertList(FINAL_BLOCK)]
                /\ UNCHANGED <<served, store>>
           ELSE /\ resp' = [resp EXCEPT ![p] = Reading]
                /\ store' = r.store
                /\ served' = [served EXCEPT ![sid[p]] = Min(@ + 1, QUOTA + 1)]
        /\ UNCHANGED <<op, sid, nread, raced, drawVars>>

\* read_cards: current = increment_session_count(...); if current > 3: return
\* the block; otherwise draw the cards and return the reading.
ReadIncrement(p) ==
    LET r == increment_session_count(store, sid[p], clock)
    IN  /\ pc[p] = "r_inc"
        /\ store' = r.store
        /\ clock' = Min(clock + 1, MaxClock)
        /\ current' = [current EXCEPT ![p] = 0]
        /\ total' = [total EXCEPT ![p] = 0]
        /\ pc' = [pc EXCEPT ![p] = "done"]
        /\ IF Sealed(r.value)
           THEN /\ resp' = [resp EXCEPT ![p] = AlertList(FINAL_BLOCK)]
                /\ UNCHANGED served
           ELSE /\ resp' = [resp EXCEPT ![p] = Reading]
                /\ served' = [served EXCEPT ![sid[p]] = Min(@ + 1, QUOTA + 1)]
        /\ UNCHANGED <<op, sid, nread, raced, drawVars>>

Next ==
    \/ \E p \in Procs, s \in Sessions : StartActivate(p, s)
    \/ \E p \in Procs, s \in Sessions : StartRead(p, s)
    \/ \E p \in Procs : ActivateFind(p)
    \/ \E p \in Procs : ActivateInsert(p)
    \/ \E p \in Procs : ReadPreCheck(p)
    \/ \E p \in Procs : ReadIncrement(p)

Spec == Init /\ [][Next]_vars

----------------------------------------------------------------------------
\* Requests of one session processed one at a time: a request for s is taken
\* only when no other request for s is being handled.

Quiet(s) == \A q \in Procs : Free(q) \/ sid[q] # s

NextSeq ==
    \/ \E p \in Procs, s \in Sessions : Quiet(s) /\ StartActivate(p, s)
    \/ \E p \in Procs, s \in Sessions : Quiet(s) /\ StartRead(p, s)
    \/ \E p \in Procs : ActivateFind(p)
    \/ \E p \in Procs : ActivateInsert(p)
    \/ \E p \in Procs : ReadPreCheck(p)
    \/ \E p \in Procs : ReadIncrement(p)

SpecSeq == Init /\ [][NextSeq]_vars

----------------------------------------------------------------------------
\* Concurrent callers of increment_session_count: every handler has passed the
\* pre-check of read_cards with the same stored count and is about to call
\* increment_session_count; a step is one call returning its value.

InitInc ==
    /\ store \in [Sessions ->
            {<<>>} \cup {<<[count |-> c, created_at |-> 0, updated_at |-> 0]>> : c \in 0..(QUOTA - 1)}]
    /\ clock = 0
    /\ pc = [p \in Procs |-> "r_inc"]
    /\ op = [p \in Procs |-> "read"]
    /\ sid \in [Procs -> Sessions]
    /\ total = [p \in Procs |-> get_session_count(store, sid[p])]
    /\ current = [p \in Procs |-> 0]
    /\ resp = [p \in Procs |-> NoResp]
    /\ nread = [s \in Sessions |-> Cardinality({p \in Procs : sid[p] = s})]
    /\ served = [s \in Sessions |-> get_session_count(store, s)]
    /\ raced = [s \in Sessions |-> Cardinality({p \in Procs : sid[p] = s}) > 1]
    /\ picks = [p \in Procs |-> <<>>]
    /\ payload = [p \in Procs |-> NoPayload]

\* current = increment_session_count(req.session_id) returns in handler p.
IncrementCall(p) ==
    LET r == increment_session_count(store, sid[p], clock)
    IN  /\ pc[p] = "r_inc"
        /\ store' = r.store
        /\ clock' = Min(clock + 1, MaxClock)
        /\ current' = [current EXCEPT ![p] = r.value]
        /\ pc' = [pc EXCEPT ![p] = "r_ret"]
        /\ UNCHANGED <<op, sid, total, resp, nread, served, raced, drawVars>>

NextInc == \E p \in Procs : IncrementCall(p)

SpecInc == InitInc /\ [][NextInc]_vars

----------------------------------------------------------------------------
\* One caller calling increment_session_count again and again for a session
\* that has no record or the count-0 record activate creates.  nread tallies
\* the calls made.

InitRep ==
    \E h \in Procs, s \in Sessions :
        /\ store \in [Sessions ->
                {<<>>, <<[count |-> 0, created_at |-> 0, updated_at |-> 0]>>}]
        /\ clock \in 0..MaxClock
        /\ pc = [p \in Procs |-> IF p = h THEN "r_inc" ELSE "idle"]
        /\ op = [p \in Procs |-> IF p = h THEN "read" ELSE "none"]
        /\ sid = [p \in Procs |-> s]
        /\ total = [p \in Procs |-> 0]
        /\ current = [p \in Procs |-> 0]
        /\ resp = [p \in Procs |-> NoResp]
        /\ nread = [t \in Sessions |-> IF t = s THEN 1 ELSE 0]
        /\ served = [t \in Sessions |-> 0]
        /\ raced = [t \in Sessions |-> FALSE]
        /\ picks = [p \in Procs |-> <<>>]
        /\ payload = [p \in Procs |-> NoPayload]

\* The caller makes its next call of increment_session_count.
CallAgain(p) ==
    /\ pc[p] = "r_ret"
    /\ nread[sid[p]] < MaxReads
    /\ nread' = [nread EXCEPT ![sid[p]] = @ + 1]
    /\ pc' = [pc EXCEPT ![p] = "r_inc"]
    /\ UNCHANGED <<store, clock, op, sid, total, current, resp, served, raced, drawVars>>

NextRep ==
    \/ \E p \in Procs : IncrementCall(p)
    \/ \E p \in Procs : CallAgain(p)

SpecRep == InitRep /\ [][NextRep]_vars

----------------------------------------------------------------------------
\* increment_session_count on a driver whose find_one_and_update may report no
\* result: the callers of SpecInc, each going on to the `current > 3` test.

\* find_one_and_update returns None in handler p.  Whether the update reached
\* the store is not known to the caller: both outcomes are taken.
IncrementNoResult(p) ==
    /\ pc[p] = "r_inc"
    /\ \/ /\ store' = find_one_and_update(store, sid[p], clock)
          /\ clock' = Min(clock + 1, MaxClock)
       \/ UNCHANGED <<store, clock>>
    /\ pc' = [pc EXCEPT ![p] = "r_fallback"]
    /\ UNCHANGED <<op, sid, total, current, resp, nread, served, raced, drawVars>>

\* The plain read of the fallback returns its value to read_cards.
IncrementFallback(p) ==
    /\ pc[p] = "r_fallback"
    /\ current' = [current EXCEPT ![p] = fallback_count(store, sid[p])]
    /\ pc' = [pc EXCEPT ![p] = "r_ret"]
    /\ UNCHANGED <<store, clock, op, sid, total, resp, nread, served, raced, drawVars>>

\* read_cards: if current > 3: return the block; otherwise return the reading.
ReadCheck(p) ==
    /\ pc[p] = "r_ret"
    /\ pc' = [pc EXCEPT ![p] = "done"]
    /\ IF Sealed(current[p])
       THEN /\ resp' = [resp EXCEPT ![p] = AlertList(FINAL_BLOCK)]
            /\ UNCHANGED served
       ELSE /\ resp' = [resp EXCEPT ![p] = Reading]
            /\ served' = [served EXCEPT ![sid[p]] = Min(@ + 1, QUOTA + 1)]
    /\ UNCHANGED <<store, clock, op, sid, total, current, nread, raced, drawVars>>

NextQuirk ==
    \/ \E p \in Procs : IncrementCall(p)
    \/ \E p \in Procs : IncrementNoResult(p)
    \/ \E p \in Procs : IncrementFallback(p)
    \/ \E p \in Procs : ReadCheck(p)

SpecQuirk == InitInc /\ [][NextQuirk]_vars

----------------------------------------------------------------------------
\* Store calls that fail: the requests of SpecSeq, where the find_one of the
\* pre-check and the find_one_and_update of the increment may raise.

\* get_session_count raises in handler p: the exception leaves read_cards.
ReadPreCheckFails(p) ==
    /\ pc[p] = "r_get"
    /\ pc' = [pc EXCEPT ![p] = "done"]
    /\ resp' = [resp EXCEPT ![p] = ErrorResp]
    /\ UNCHANGED <<store, clock, op, sid, total, current, nread, served, raced, drawVars>>

\* As ReadIncrementFails, with the failed call made again by the handler.
ReadIncrementFails_retry(p) ==
    /\ pc[p] = "r_inc"
    /\ \/ /\ store' = find_one_and_update(store, sid[p], clock)
          /\ clock' = Min(clock + 1, MaxClock)
       \/ UNCHANGED <<store, clock>>
    /\ UNCHANGED <<pc, resp, total, op, sid, current, nread, served, raced, drawVars>>

\* increment_session_count raises in handler p: the exception leaves
\* read_cards.  The update may or may not have reached the store before the
\* call failed.
ReadIncrementFails(p) ==
    /\ pc[p] = "r_inc"
    /\ \/ /\ store' = find_one_and_update(store, sid[p], clock)
          /\ clock' = Min(clock + 1, MaxClock)
       \/ UNCHANGED <<store, clock>>
    /\ pc' = [pc EXCEPT ![p] = "done"]
    /\ resp' = [resp EXCEPT ![p] = ErrorResp]
    /\ total' = [total EXCEPT ![p] = 0]
    /\ UNCHANGED <<op, sid, current, nread, served, raced, drawVars>>

NextFail ==
    \/ NextSeq
    \/ \E p \in Procs : ReadPreCheckFails(p)
    \/ \E p \in Procs : ReadIncrementFails(p)

SpecFail == Init /\ [][NextFail]_vars

----------------------------------------------------------------------------
\* The drawing part of read_cards: one handler has incremented the counter to
\* a value within the quota and goes on to draw the cards and build the
\* reading.

InitDraw ==
    \E h \in Procs, s \in Sessions, c \in 1..QUOTA :
        /\ store = [t \in Sessions |->
                IF t = s THEN <<[count |-> c, created_at |-> 0, updated_at |-> 0]>> ELSE <<>>]
        /\ clock = 0
        /\ pc = [p \in Procs |-> IF p = h THEN "r_draw" ELSE "idle"]
        /\ op = [p \in Procs |-> IF p = h THEN "read" ELSE "none"]
        /\ sid = [p \in Procs |-> s]
        /\ total = [p \in Procs |-> IF p = h THEN c - 1 ELSE 0]
        /\ current = [p \in Procs |-> IF p = h THEN c ELSE 0]
        /\ resp = [p \in Procs |-> NoResp]
        /\ nread = [t \in Sessions |-> IF t = s THEN c ELSE 0]
        /\ served = [t \in Sessions |-> IF t = s THEN c - 1 ELSE 0]
        /\ raced = [t \in Sessions |-> FALSE]
        /\ picks = [p \in Procs |-> <<>>]
        /\ payload = [p \in Procs |-> NoPayload]

\* picks = random.sample(TAROT_DECK, 3)
Draw(p) ==
    /\ pc[p] = "r_draw"
    /\ picks' \in {[picks EXCEPT ![p] = d] : d \in sample(TAROT_DECK, DrawCount)}
    /\ pc' = [pc EXCEPT ![p] = "r_build"]
    /\ UNCHANGED <<store, clock, op, sid, total, current, resp, nread, served, raced, payload>>

\* payload = build_reading(picks); return payload
Build(p) ==
    /\ pc[p] = "r_build"
    /\ \E addressed \in AddressForms, hook \in Hooks :
            payload' = [payload EXCEPT ![p] = build_reading(picks[p], addressed, hook)]
    /\ resp' = [resp EXCEPT ![p] = Reading]
    /\ served' = [served EXCEPT ![sid[p]] = Min(@ + 1, QUOTA + 1)]
    /\ pc' = [pc EXCEPT ![p] = "done"]
    /\ UNCHANGED <<store, clock, op, sid, total, current, nread, raced, picks>>

NextDraw ==
    \/ \E p \in Procs : Draw(p)
    \/ \E p \in Procs : Build(p)

SpecDraw == InitDraw /\ [][NextDraw]_vars

----------------------------------------------------------------------------
\* Properties

\* p returns from its request in this step.
Returns(p) == pc[p] \notin {"idle", "done"} /\ pc'[p] = "done"

\* C1: with the requests of a session processed one at a time, the k-th
\* /api/read of a session returns a reading and leaves the stored count at k
\* for k = 1, 2, 3; the 4th and every later one returns the one-element
\* FINAL_WARNING alert list and leaves the stored count at 3.
C1_SequentialQuota ==
    [][\A p \in Procs :
        (op[p] = "read" /\ Returns(p)) =>
            LET s == sid[p]
                k == nread[s]
            IN  /\ k <= QUOTA =>
                    /\ resp'[p] = Reading
                    /\ get_session_count(store', s) = k
                /\ k > QUOTA =>
                    /\ resp'[p] = AlertList(FINAL_WARNING)
                    /\ get_session_count(store', s) = QUOTA
                    /\ store' = store]_vars

\* A fifth /api/read of a session has been answered with the warning while
\* the count stands at 3 after three readings.
C1_Witness ==
    \E p \in Procs :
        /\ pc[p] = "done" /\ op[p] = "read"
        /\ nread[sid[p]] = QUOTA + 2
        /\ served[sid[p]] = QUOTA
        /\ resp[p] = AlertList(FINAL_WARNING)
        /\ get_session_count(store, sid[p]) = QUOTA

\* C2: in every execution, whatever the interleaving of /api/read and
\* /api/activate requests, at most 3 /api/read requests of a session return a
\* reading object.
C2_AtMostThreeReadings == \A s \in Sessions : served[s] <= QUOTA

\* Callers of increment_session_count for s whose call has returned.
Returned(s) == {p \in Procs : sid[p] = s /\ pc[p] = "r_ret"}

C4_CountNeverDecreases ==
    [][\A s \in Sessions :
        get_session_count(store', s) >= get_session_count(store, s)]_vars

\* C5: once the count of a session is at least 3 it never drops below 3 again,
\* and a pre-check made from then on answers with an alert.
C5_SealedForever ==
    [][\A s \in Sessions :
        get_session_count(store, s) >= QUOTA =>
            /\ get_session_count(store', s) >= QUOTA
            /\ \A p \in Procs :
                (sid[p] = s /\ pc[p] = "r_get" /\ pc'[p] # "r_get") =>
                    resp'[p].shape = "list"]_vars

\* C6: an activate whose lookup finds a record of the session (whatever its
\* count) returns the acknowledgment at once and writes nothing: every
\* document of the store, its count and timestamps, is as before.
C6_ActivateExistingNoWrite ==
    [][\A p \in Procs :
        (pc[p] = "a_find" /\ pc'[p] # "a_find" /\ store[sid[p]] # <<>>) =>
            /\ pc'[p] = "done"
            /\ resp'[p] = Ack
            /\ store' = store]_vars

\* One handler has served every request so far, the last of them an activate
\* of a session that already stood at count 3; the record is still the only
\* one and still at 3.
C6_Witness ==
    \E p \in Procs :
        /\ pc[p] = "done" /\ op[p] = "activate" /\ resp[p] = Ack
        /\ \A q \in Procs \ {p} : pc[q] = "idle"
        /\ Len(store[sid[p]]) = 1
        /\ store[sid[p]][1].count = QUOTA

\* C7: with requests processed one at a time and no read of the session so
\* far, every completed activate has returned {phrase, status: "ready"}, the
\* session has exactly one record, created at count 0, and get_session_count
\* is 0.
C7_SequentialActivate ==
    \A p \in Procs :
        (pc[p] = "done" /\ op[p] = "activate" /\ nread[sid[p]] = 0) =>
            /\ resp[p] = Ack
            /\ resp[p].status = "ready"
            /\ Len(store[sid[p]]) = 1
            /\ store[sid[p]][1].count = 0
            /\ get_session_count(store, sid[p]) = 0

\* Two activates of the same never-read session have completed one after the other.
C7_Witness ==
    \E p, q \in Procs :
        /\ p # q /\ sid[p] = sid[q]
        /\ pc[p] = "done" /\ op[p] = "activate"
        /\ pc[q] = "done" /\ op[q] = "activate"
        /\ nread[sid[p]] = 0
        /\ get_session_count(store, sid[p]) = 0

\* C8: the store never holds more than one record per session_id.
C8_OneRecordPerSession == \A s \in Sessions : Len(store[s]) <= 1

\* C9: a stored count above 3 and a FINAL_BLOCK answer occur only for a
\* session of which two /api/read requests were both past the pre-check and
\* before their increment at the same time; with the requests of a session
\* processed one at a time neither occurs.
C9_SealedOnlyByRace ==
    \A s \in Sessions :
        (\/ \E i \in 1..Len(store[s]) : store[s][i].count > QUOTA
         \/ \E p \in Procs :
                sid[p] = s /\ pc[p] = "done" /\ resp[p] = AlertList(FINAL_BLOCK))
        => raced[s]

\* Two overlapping reads passed the pre-check at count 2; the second to
\* increment got 4 and was answered with FINAL_BLOCK.
C9_Witness ==
    \E p \in Procs :
        /\ pc[p] = "done" /\ resp[p] = AlertList(FINAL_BLOCK)
        /\ raced[sid[p]]
        /\ Len(store[sid[p]]) = 1
        /\ store[sid[p]][1].count = QUOTA + 1

\* C10: a read_cards whose pre-check reads total >= 3 returns the one-element
\* FINAL_WARNING alert list and leaves the whole store (counts and
\* timestamps) and the clock untouched: no increment is issued.
C10_OverQuotaNoWrite ==
    [][\A p \in Procs :
        (pc[p] = "r_get" /\ pc'[p] # "r_get"
            /\ get_session_count(store, sid[p]) >= QUOTA) =>
            /\ pc'[p] = "done"
            /\ resp'[p] = AlertList(FINAL_WARNING)
            /\ Len(resp'[p].items) = 1
            /\ store' = store
            /\ clock' = clock]_vars

\* A read has been answered with the warning by a pre-check that found the
\* count at 3, after exactly three readings.
C10_Witness ==
    \E p \in Procs :
        /\ pc[p] = "done" /\ op[p] = "read"
        /\ resp[p] = AlertList(FINAL_WARNING)
        /\ served[sid[p]] = QUOTA
        /\ nread[sid[p]] = QUOTA + 1
        /\ store[sid[p]] # <<>>
        /\ store[sid[p]][1].count = QUOTA

\* C11: get_session_count is a pure read: the pre-check of read_cards, which
\* is its call, leaves the store and the clock as they were (no record is
\* created for a session without one) and obtains 0 for a session without a
\* record and the count of the session's record otherwise.
C11_GetSessionCountPure ==
    [][\A p \in Procs :
        (pc[p] = "r_get" /\ pc'[p] # "r_get") =>
            LET s == sid[p]
            IN  /\ store' = store
                /\ clock' = clock
                /\ store[s] = <<>> =>
                    /\ pc'[p] = "r_inc"
                    /\ total'[p] = 0
                    /\ store'[s] = <<>>
                /\ (store[s] # <<>> /\ store[s][1].count < QUOTA) =>
                    /\ pc'[p] = "r_inc"
                    /\ total'[p] = store[s][1].count
                /\ (store[s] # <<>> /\ store[s][1].count >= QUOTA) =>
                    pc'[p] = "done"]_vars

\* One handler has read 0 for a session that still has no record, while
\* another has read the count 2 of the other session's record.
C11_Witness ==
    \E p, q \in Procs :
        /\ pc[p] = "r_inc" /\ total[p] = 0 /\ store[sid[p]] = <<>>
        /\ pc[q] = "r_inc" /\ total[q] = 2
        /\ store[sid[q]] # <<>> /\ store[sid[q]][1].count = 2

\* C12: the n-th call in a sequence of calls of increment_session_count for a
\* session returns n, whether the session started without a record (the first
\* call then creates it at count 1) or with the count-0 record of activate;
\* the session has one record and its count is n.
C12_SequentialIncrements ==
    \A p \in Procs :
        pc[p] = "r_ret" =>
            /\ current[p] = nread[sid[p]]
            /\ Len(store[sid[p]]) = 1
            /\ store[sid[p]][1].count = nread[sid[p]]
            /\ get_session_count(store, sid[p]) = nread[sid[p]]

\* The fifth call in a row has returned 5.
C12_Witness ==
    \E p \in Procs :
        /\ pc[p] = "r_ret"
        /\ nread[sid[p]] = QUOTA + 2
        /\ current[p] = QUOTA + 2
        /\ store[sid[p]][1].count = QUOTA + 2

\* C14: when find_one_and_update reports no result, increment_session_count
\* returns the count of the record a plain read finds, and 1 when the read
\* finds no record; the request goes on to the current > 3 test with this
\* value and answers with the block or with a reading, never with an error.
C14_NoResultFallback ==
    [][\A p \in Procs :
        /\ (pc[p] = "r_fallback" /\ pc'[p] # "r_fallback") =>
                /\ pc'[p] = "r_ret"
                /\ resp'[p] = NoResp
                /\ store' = store
                /\ current'[p] = IF store[sid[p]] = <<>> THEN 1 ELSE store[sid[p]][1].count
        /\ (pc[p] = "r_ret" /\ pc'[p] # "r_ret") =>
                /\ pc'[p] = "done"
                /\ resp'[p] = IF current[p] > 3 THEN AlertList(FINAL_BLOCK) ELSE Reading
      ]_vars

\* A request whose increment reported no result and whose read found no
\* record has been answered with a reading, on the value 1.
C14_Witness ==
    \E p \in Procs :
        /\ pc[p] = "done" /\ resp[p] = Reading
        /\ store[sid[p]] = <<>>
        /\ current[p] = 1

\* r is a list of exactly one {name: "alert", description: d} object.
OneAlert(r, d) ==
    /\ r.shape = "list"
    /\ Len(r.items) = 1
    /\ DOMAIN r.items[1] = {"name", "description"}
    /\ r.items[1].name = "alert"
    /\ r.items[1].description = d
    /\ r.keys = {}

\* r is a single object with the fields cards, message, cta and cta_sub.
OneReading(r) ==
    /\ r.shape = "object"
    /\ r.items = <<>>
    /\ r.keys = {"cards", "message", "cta", "cta_sub"}

\* C15: the shape of the answer of /api/read follows the branch taken: a
\* request returning from the pre-check (stored count >= 3) or from the
\* increment with a new count > 3 answers with a list of exactly one
\* {name: "alert", description} object; a request returning from the
\* increment with a new count <= 3 answers with one object with the fields
\* cards, message, cta, cta_sub; every answer is one of the two, never both.
C15_ShapeFollowsBranch ==
    [][\A p \in Procs :
        (op[p] = "read" /\ Returns(p)) =>
            LET c == IF store[sid[p]] = <<>> THEN 0 ELSE store[sid[p]][1].count
                r == resp'[p]
            IN  /\ pc[p] \in {"r_get", "r_inc"}
                /\ pc[p] = "r_get" => (c >= 3 /\ OneAlert(r, FINAL_WARNING))
                /\ (pc[p] = "r_inc" /\ c + 1 > 3) => OneAlert(r, FINAL_BLOCK)
                /\ (pc[p] = "r_inc" /\ c + 1 <= 3) => OneReading(r)
                /\ (r.shape = "list") # (r.shape = "object")
      ]_vars

\* One request has been answered with the warning list and another with a
\* reading object.
C15_Witness ==
    \E p, q \in Procs :
        /\ pc[p] = "done" /\ op[p] = "read" /\ OneAlert(resp[p], FINAL_WARNING)
        /\ pc[q] = "done" /\ op[q] = "read" /\ OneReading(resp[q])

\* C16: when the pre-check read or the increment of a /api/read request
\* fails, the request ends at once with an error and without a reading (the
\* call is not made again), and every change of the store by a request is
\* the last step of that request and raises the count of its session by at
\* most 1: a request issues at most one increment.
C16_FailureSurfacedNoRetry ==
    [][/\ \A p \in Procs :
            (ReadPreCheckFails(p) \/ ReadIncrementFails(p)) =>
                /\ pc'[p] = "done"
                /\ resp'[p].shape = "error"
                /\ ~OneReading(resp'[p])
                /\ served' = served
       /\ \A p \in Procs : ReadPreCheckFails(p) => store' = store
       /\ store' # store =>
            \E p \in Procs :
                /\ pc[p] \in {"r_inc", "a_insert"} /\ pc'[p] = "done"
                /\ \A s \in Sessions \ {sid[p]} : store'[s] = store[s]
                /\ op[p] = "read" =>
                        get_session_count(store', sid[p])
                            <= get_session_count(store, sid[p]) + 1
      ]_vars

\* A request has ended with an error after its increment reached the store:
\* the session's count is 1 and no reading was served.
C16_Witness ==
    \E p \in Procs :
        /\ pc[p] = "done" /\ op[p] = "read" /\ resp[p] = ErrorResp
        /\ get_session_count(store, sid[p]) = 1
        /\ served[sid[p]] = 0
        /\ nread[sid[p]] = 1

\* C17: a /api/read request changes the stored count of its session by at
\* most 1.  Its pre-check changes nothing and ends the request exactly when
\* the count it reads is >= 3; a request whose pre-check read a count < 3
\* goes on to the increment, which raises the stored count by exactly 1 and
\* ends the request, with a reading or with the sealed alert alike.
C17_OneIncrementPerRead ==
    [][\A p \in Procs :
        op[p] = "read" =>
            LET s == sid[p]
            IN  /\ (pc[p] = "r_get" /\ pc'[p] # "r_get") =>
                    /\ store' = store
                    /\ get_session_count(store, s) >= 3 => pc'[p] = "done"
                    /\ get_session_count(store, s) < 3 =>
                            (pc'[p] = "r_inc" /\ total'[p] < 3)
                /\ pc[p] = "r_inc" => total[p] < 3
                /\ (pc[p] = "r_inc" /\ pc'[p] # "r_inc") =>
                    /\ get_session_count(store', s) = get_session_count(store, s) + 1
                    /\ pc'[p] = "done"
                    /\ OneReading(resp'[p]) \/ OneAlert(resp'[p], FINAL_BLOCK)
      ]_vars

\* Four read requests were made for a session, three readings were served
\* and the count is 4: the request answered with the sealed alert raised the
\* count without serving a reading.
C17_Witness ==
    \E p \in Procs :
        /\ pc[p] = "done" /\ op[p] = "read"
        /\ OneAlert(resp[p], FINAL_BLOCK)
        /\ nread[sid[p]] = 4
        /\ served[sid[p]] = 3
        /\ get_session_count(store, sid[p]) = 4

\* C19: sessions are isolated: a step of an activate or read request for
\* session S, on any branch, leaves the records (and so the count) of every
\* other session T # S as they were; the arrival of a request changes no
\* record at all.
C19_SessionsIsolated ==
    [][\A p \in Procs :
        pc'[p] # pc[p] =>
            IF Free(p)
            THEN store' = store
            ELSE \A t \in Sessions \ {sid[p]} :
                    /\ store'[t] = store[t]
                    /\ get_session_count(store', t) = get_session_count(store, t)
      ]_vars

\* One session has used its quota and been refused with the warning, while
\* another session, on its first request, was served a reading at count 1.
C19_Witness ==
    \E p, q \in Procs :
        /\ sid[p] # sid[q]
        /\ pc[p] = "done" /\ OneAlert(resp[p], FINAL_WARNING)
        /\ get_session_count(store, sid[p]) = 3
        /\ pc[q] = "done" /\ OneReading(resp[q])
        /\ nread[sid[q]] = 1
        /\ served[sid[q]] = 1
        /\ get_session_count(store, sid[q]) = 1

\* The entries of the deck.
DeckEntries == {TAROT_DECK[i] : i \in 1..Len(TAROT_DECK)}

\* cs is a draw of exactly 3 entries of the 8-entry deck, no entry and no
\* name twice.
DistinctDraw(cs) ==
    /\ Len(TAROT_DECK) = 8
    /\ Len(cs) = 3
    /\ \A i \in 1..Len(cs) : cs[i] \in DeckEntries
    /\ \A i, j \in 1..Len(cs) :
            i # j => (cs[i] # cs[j] /\ cs[i].name # cs[j].name)

\* C13: the cards drawn by read_cards, and the cards field of every reading
\* object it returns, are exactly 3 entries of the 8-entry TAROT_DECK,
\* pairwise distinct as entries and by name.
C13_ThreeDistinctCards ==
    \A p \in Procs :
        /\ pc[p] = "r_build" => DistinctDraw(picks[p])
        /\ (pc[p] = "done" /\ resp[p] = Reading) =>
                /\ payload[p].cards = picks[p]
                /\ DistinctDraw(payload[p].cards)

\* A reading has been returned with the last, the first and the fifth entry
\* of the deck, in this order.
C13_Witness ==
    \E p \in Procs :
        /\ pc[p] = "done" /\ resp[p] = Reading
        /\ payload[p].cards = <<TAROT_DECK[8], TAROT_DECK[1], TAROT_DECK[5]>>

\* Positions of the lines of message m that are card lines.
CardLinePositions(m) ==
    {j \in 1..Len(m) : Len(m[j]) >= 2 /\ m[j][2] = " Card "}

\* C18: the message of a reading has exactly one line per drawn card, in the
\* order of the cards field; the line of the i-th card carries its symbol,
\* the index i (from 1), its name, its meaning and its whisper; the card
\* lines stand after the address/preamble line (the first line) and before
\* the three-line teaser block, which stands before the closing hook line
\* (the last line).
C18_CardLinesInOrder ==
    \A p \in Procs :
        (pc[p] = "done" /\ resp[p] = Reading) =>
            LET m  == payload[p].message
                cs == payload[p].cards
            IN  \E first \in 2..Len(m), hint \in 2..Len(m) :
                    /\ CardLinePositions(m) = first..(first + Len(cs) - 1)
                    /\ Cardinality(CardLinePositions(m)) = Len(cs)
                    /\ \A i \in 1..Len(cs) :
                        LET l == m[first + i - 1]
                        IN  /\ Len(l) = 9
                            /\ l[1] = cs[i].symbol
                            /\ l[3] = <<"1", "2", "3">>[i]
                            /\ l[5] = cs[i].name
                            /\ l[7] = cs[i].meaning
                            /\ l[9] = cs[i].whisper
                    /\ m[1][1] \in AddressForms
                    /\ first + Len(cs) - 1 < hint
                    /\ SubSeq(m, hint, hint + 2) = HintLines
                    /\ hint + 2 < Len(m)
                    /\ \E h \in Hooks : m[Len(m)] = <<h>>

\* A reading whose second card is Death: its second card line is numbered 2
\* and names Death, after the "soul in crossing" address line.
C18_Witness ==
    \E p \in Procs :
        /\ pc[p] = "done" /\ resp[p] = Reading
        /\ payload[p].cards[2].name = "Death"
        /\ payload[p].message[1][1] = "soul in crossing"
        /\ payload[p].message[4][3] = "2"
        /\ payload[p].message[4][5] = "Death"

====
